---- MODULE Spec2Model ----
(***************************************************************************)
(* Model of avocado/plugins/journal.py: the TestResultJournal recorder and *)
(* the sqlite journal files it writes.                                     *)
(*                                                                         *)
(* One recorder object is live at a time; NewRecorder models a restart or  *)
(* a second job (a fresh TestResultJournal, the previous one abandoned     *)
(* without end_tests).  Journal files persist across recorders.            *)
(*                                                                         *)
(* sqlite3 semantics used: CREATE TABLE is committed at once; an INSERT    *)
(* opens an implicit transaction whose rows reach the file on commit();    *)
(* close() and dropping the connection discard an open transaction; a      *)
(* commit() that fails either leaves the transaction open (SQLITE_BUSY) or *)
(* rolls it back (SQLITE_FULL, SQLITE_IOERR).                              *)
(*                                                                         *)
(* The code closes a connection only in _shutdown_journal.  A connection   *)
(* that _init_journal replaces is closed by the interpreter when it        *)
(* finalizes the unreferenced object: at once under reference counting     *)
(* when nothing else refers to it, later or never when a traceback or a    *)
(* tracing collector keeps it.  Both outcomes are modelled.                *)
(***************************************************************************)
EXTENDS Integers, Sequences, FiniteSets, TLC

\* ---------------------------------------------------------------- bounds
MaxOps == 3
MaxClock == 1
MaxFaults == 1

\* ---------------------------------------------------------------- inputs
LogDirs == {"d1", "d2"}
JobIds == {"j1", "j2"}
Tags == {"t1", "t2"}
Statuses == {"PASS", "FAIL"}
Null == "NULL"
NoDir == "nodir"

\* state dictionaries handed to start_test / end_test
States ==
    [job_logdir : LogDirs, job_unique_id : JobIds,
     tagged_name : Tags, status : Statuses \cup {Null}]

\* the two tables of SCHEMA, and the orders in which "for table in SCHEMA"
\* may visit them (dict iteration order)
SCHEMA == {"job_info", "test_journal"}
SchemaOrders == {<<"job_info", "test_journal">>, <<"test_journal", "job_info">>}

\* the storage step that raises during a call, if it is executed at all
Faults ==
    {"none", "open", "create_job_info", "create_test_journal",
     "job_insert", "job_commit_keep", "job_commit_rollback",
     "insert", "commit_keep", "commit_rollback"}

\* the visiting order shows only when a CREATE TABLE raises part-way
OrdersFor(fault) ==
    IF fault \in {"create_job_info", "create_test_journal"} THEN SchemaOrders
    ELSE {<<"job_info", "test_journal">>}

CreateFault(table) == IF table = "job_info" THEN "create_job_info" ELSE "create_test_journal"

NoState == [job_logdir |-> NoDir, job_unique_id |-> Null, tagged_name |-> Null, status |-> Null]

\* ----------------------------------------------------------------- state
VARIABLES
    db,                  \* db[d]: committed content of d/.journal.sqlite
    journal_initialized, \* self.journal_initialized
    journal,             \* self.journal: [st: unset|open|closed, file]
    journal_path,        \* self.journal_path
    txn,                 \* rows inserted on self.journal and not yet committed
    clock,               \* the wall clock now() reads
    opens,               \* sqlite3.connect calls made by the live recorder
    orphans,             \* connections the live recorder opened, replaced in
                         \* self.journal, and that nothing has closed
    phase,               \* Uninitialized, Active (a lazy init has completed) or
                         \* Closed (end_tests has run on the Active recorder)
    last,                \* the last operation: its input and its outcome
    log,                 \* log[d]: the returned start_test/end_test calls that wrote to d
    allok,               \* no start_test/end_test call has raised so far
    nops,                \* operations (notifications, constructions) so far
    nfaults              \* calls in which a storage step raised so far

vars == <<db, journal_initialized, journal, journal_path, txn, clock, opens,
          orphans, phase, last, log, allok, nops, nfaults>>

EmptyFile == [exists |-> FALSE, tables |-> {}, job_info |-> <<>>, test_journal |-> <<>>]
EmptyTxn == [job_info |-> <<>>, test_journal |-> <<>>]
Unset == [st |-> "unset", file |-> NoDir]

\* last, when the last operation was the construction of a recorder
NoCall ==
    [op |-> "new", state |-> NoState, err |-> "none", fired |-> "none",
     hook |-> FALSE, opened |-> FALSE, created |-> {}]

\* the steps that can raise in the next call: an initialized recorder skips
\* lazy init, and at most MaxFaults calls meet a storage fault
ReachableFaults ==
    IF nfaults >= MaxFaults THEN {"none"}
    ELSE IF journal_initialized THEN {"none", "insert", "commit_keep", "commit_rollback"}
    ELSE Faults

\* what may become of a connection that the next call replaces: finalized
\* at once (TRUE) or left open (FALSE).  A connection left open with an
\* open transaction keeps the file locked against the new connection, whose
\* writes then all fail; only the outcome in which it is finalized lets
\* the recorder go on, so that is the one kept for it.
Finalizations ==
    IF ~journal_initialized /\ journal.st = "open" /\ txn = EmptyTxn
    THEN BOOLEAN ELSE {TRUE}

\* ------------------------------------------------------------- the code
\* The recorder and the files as one value, threaded through the methods;
\* err is the exception in flight, fired the storage step that raised it,
\* hook whether the base-class hook ran, opened whether sqlite3.connect
\* returned a connection, created the tables a CREATE TABLE was executed for,
\* finalize whether a replaced connection is finalized at once.
Self ==
    [db |-> db, journal_initialized |-> journal_initialized, journal |-> journal,
     journal_path |-> journal_path, txn |-> txn, opens |-> opens,
     orphans |-> orphans, finalize |-> TRUE,
     err |-> "none", fired |-> "none", hook |-> FALSE, opened |-> FALSE,
     created |-> {}]

\* the recorder in an interpreter run with the given finalization outcome
SelfIn(finalize) == [Self EXCEPT !.finalize = finalize]

\* an exception the code itself runs into
Raise(w, e) == [w EXCEPT !.err = e]

\* sqlite3 raises at storage step fault
Fail(w, fault) == [w EXCEPT !.err = "OperationalError", !.fired = fault]

\* sqlite3.connect(path): creates the file if absent; the connection and
\* cursor that self.journal and self.journal_cursor held are dropped
Connect(w, logdir) ==
    [w EXCEPT !.db[logdir].exists = TRUE,
              !.journal = [st |-> "open", file |-> logdir],
              !.txn = EmptyTxn,
              !.opened = TRUE,
              !.opens = @ + 1,
              !.orphans = IF w.journal.st = "open" /\ ~w.finalize THEN @ + 1 ELSE @]

\* the loop body without the PRAGMA test of lines 63-64: a blind CREATE
\* TABLE, which sqlite refuses for a table that exists
EnsureTable_BlindCreate(w, table, fault) ==
    IF w.err # "none" THEN w
    ELSE IF table \in w.db[w.journal.file].tables
         THEN [Raise(w, "OperationalError") EXCEPT !.created = @ \cup {table}]
    ELSE IF fault = CreateFault(table)
         THEN [Fail(w, fault) EXCEPT !.created = @ \cup {table}]
         ELSE [w EXCEPT !.db[w.journal.file].tables = @ \cup {table},
                        !.created = @ \cup {table}]

\* one round of the loop of _init_journal: PRAGMA table_info, then CREATE
\* TABLE when no row came back
EnsureTable(w, table, fault) ==
    IF w.err # "none" THEN w
    ELSE IF table \in w.db[w.journal.file].tables THEN w
    ELSE IF fault = CreateFault(table)
         THEN [Fail(w, fault) EXCEPT !.created = @ \cup {table}]
         ELSE [w EXCEPT !.db[w.journal.file].tables = @ \cup {table},
                        !.created = @ \cup {table}]

\* journal.commit(): the open transaction reaches the file
Commit(w) ==
    [w EXCEPT !.db[w.journal.file].job_info = @ \o w.txn.job_info,
              !.db[w.journal.file].test_journal = @ \o w.txn.test_journal,
              !.txn = EmptyTxn]

_init_journal(w, logdir, fault, order) ==
    LET w1 == [w EXCEPT !.journal_path = logdir]
    IN  IF fault = "open" THEN Fail(w1, fault)
        ELSE EnsureTable(EnsureTable(Connect(w1, logdir), order[1], fault),
                         order[2], fault)

\* _record_job_info that stores the id of the job at hand over the one found
_record_job_info_Overwrite(w, state, fault) ==
    IF fault \in {"job_insert", "job_commit_keep", "job_commit_rollback"}
    THEN Fail(w, fault)
    ELSE [w EXCEPT !.db[w.journal.file].job_info = <<state.job_unique_id>>]

\* _record_job_info without the SELECT of lines 79-80: a blind INSERT, which
\* the UNIQUE constraint refuses only for an id already stored
_record_job_info_BlindInsert(w, state, fault) ==
    LET f == w.journal.file
        seen == w.db[f].job_info \o w.txn.job_info
        w1 == [w EXCEPT !.txn.job_info = Append(@, state.job_unique_id)]
    IN  IF \E i \in 1..Len(seen) : seen[i] = state.job_unique_id
        THEN Raise(w, "IntegrityError")
        ELSE IF fault = "job_insert" THEN Fail(w, fault)
        ELSE Commit(w1)

_record_job_info(w, state, fault) ==
    LET f == w.journal.file
        seen == w.db[f].job_info \o w.txn.job_info
        w1 == [w EXCEPT !.txn.job_info = Append(@, state.job_unique_id)]
    IN  IF seen # <<>> THEN w
        ELSE IF fault = "job_insert" THEN Fail(w, fault)
        ELSE IF fault = "job_commit_keep" THEN Fail(w1, fault)
        ELSE IF fault = "job_commit_rollback"
             THEN Fail([w1 EXCEPT !.txn = EmptyTxn], fault)
        ELSE Commit(w1)

\* lazy_init_journal that does not call _record_job_info
lazy_init_journal_NoJobInfo(w, state, fault, order) ==
    IF w.journal_initialized THEN w
    ELSE LET w1 == _init_journal(w, state.job_logdir, fault, order)
         IN  IF w1.err # "none" THEN w1
             ELSE [w1 EXCEPT !.journal_initialized = TRUE]

\* lazy_init_journal without the journal_initialized test of line 70
lazy_init_journal_EveryCall(w, state, fault, order) ==
    LET w1 == _init_journal(w, state.job_logdir, fault, order)
        w2 == IF w1.err # "none" THEN w1 ELSE _record_job_info(w1, state, fault)
    IN  IF w2.err # "none" THEN w2
        ELSE [w2 EXCEPT !.journal_initialized = TRUE]

lazy_init_journal(w, state, fault, order) ==
    IF w.journal_initialized THEN w
    ELSE LET w1 == _init_journal(w, state.job_logdir, fault, order)
             w2 == IF w1.err # "none" THEN w1 ELSE _record_job_info(w1, state, fault)
         IN  IF w2.err # "none" THEN w2
             ELSE [w2 EXCEPT !.journal_initialized = TRUE]

\* The clock counts half seconds: the datetime of clock value c, as its
\* second and microsecond fields (the date, hour and minute fields are the
\* same at every instant modelled).
DateTime(c) == [second |-> c \div 2, microsecond |-> (c % 2) * 500000]

\* now() reading a fixed epoch instead of the clock
Now_Epoch == DateTime(0)

\* datetime.datetime(1, 1, 1).now(): now() is a classmethod, the instance
\* it is called on is ignored
Now == DateTime(clock)

DigitChars == <<"0", "1", "2", "3", "4", "5", "6", "7", "8", "9">>
Digit(n) == DigitChars[n + 1]

\* datetime.isoformat(), from the seconds on: "SS", followed by ".ffffff"
\* only when the microsecond field is not 0
isoformat(t) ==
    <<Digit((t.second \div 10) % 10), Digit(t.second % 10)>>
    \o (IF t.microsecond = 0 THEN <<>>
        ELSE <<".">> \o [i \in 1..6 |-> Digit((t.microsecond \div (10 ^ (6 - i))) % 10)])

\* the status column without the action test of lines 89-92
StatusOf_AnyAction(state, action) == state.status

StatusOf(state, action) == IF action = "ENDED" THEN state.status ELSE Null

\* an INSERT that names the flushed column and marks the row forwarded
Row_Flushed(state, action) ==
    [tag |-> state.tagged_name, time |-> isoformat(Now), action |-> action,
     status |-> StatusOf(state, action), flushed |-> TRUE]

\* the INSERT names four columns; flushed takes the DEFAULT 0 of SCHEMA
Row(state, action) ==
    [tag |-> state.tagged_name, time |-> isoformat(Now), action |-> action,
     status |-> StatusOf(state, action), flushed |-> FALSE]

\* _record_status writing to the journal of the state's own job_logdir
\* instead of the connection opened at initialization
_record_status_ByState(w, state, action, fault) ==
    LET f == state.job_logdir
    IN  IF w.journal.st # "open" THEN Raise(w, "ProgrammingError")
        ELSE IF fault \in {"insert", "commit_keep", "commit_rollback"} THEN Fail(w, fault)
        ELSE [w EXCEPT !.db[f].exists = TRUE,
                       !.db[f].test_journal = Append(@, Row(state, action))]

\* _record_status with the commit of line 99 left out
_record_status_NoCommit(w, state, action, fault) ==
    LET w1 == [w EXCEPT !.txn.test_journal = Append(@, Row(state, action))]
    IN  IF w.journal.st # "open" THEN Raise(w, "ProgrammingError")
        ELSE IF fault = "insert" THEN Fail(w, fault)
        ELSE w1

_record_status(w, state, action, fault) ==
    LET w1 == [w EXCEPT !.txn.test_journal = Append(@, Row(state, action))]
    IN  IF w.journal.st # "open" THEN Raise(w, "ProgrammingError")
        ELSE IF fault = "insert" THEN Fail(w, fault)
        ELSE IF fault = "commit_keep" THEN Fail(w1, fault)
        ELSE IF fault = "commit_rollback"
             THEN Fail([w1 EXCEPT !.txn = EmptyTxn], fault)
        ELSE Commit(w1)

\* TestResult.start_test / TestResult.end_test of the base class
BaseHook(w) == [w EXCEPT !.hook = TRUE]

\* start_test / end_test running the base-class hook before lazy init
Notify_HookFirst(w, state, action, fault, order) ==
    LET w1 == lazy_init_journal(BaseHook(w), state, fault, order)
    IN  IF w1.err # "none" THEN w1 ELSE _record_status(w1, state, action, fault)

Notify(w, state, action, fault, order) ==
    LET w1 == lazy_init_journal(w, state, fault, order)
        w2 == IF w1.err # "none" THEN w1 ELSE BaseHook(w1)
    IN  IF w2.err # "none" THEN w2 ELSE _record_status(w2, state, action, fault)

\* _shutdown_journal that leaves the connection open
_shutdown_journal_NoClose(w) ==
    IF w.journal.st = "unset" THEN Raise(w, "AttributeError") ELSE w

\* _shutdown_journal that also clears journal_initialized, so that the next
\* notification opens storage again
_shutdown_journal_Reset(w) ==
    IF w.journal.st = "unset" THEN Raise(w, "AttributeError")
    ELSE [w EXCEPT !.journal.st = "closed", !.txn = EmptyTxn,
                   !.journal_initialized = FALSE]

_shutdown_journal(w) ==
    IF w.journal.st = "unset" THEN Raise(w, "AttributeError")
    ELSE [w EXCEPT !.journal.st = "closed", !.txn = EmptyTxn]

\* the outcome w of operation op becomes the next state
Return(w, op, state) ==
    /\ db' = w.db
    /\ journal_initialized' = w.journal_initialized
    /\ journal' = w.journal
    /\ journal_path' = w.journal_path
    /\ txn' = w.txn
    /\ opens' = w.opens
    /\ orphans' = w.orphans
    /\ phase' = IF phase = "Uninitialized" /\ w.journal_initialized THEN "Active"
                ELSE IF phase = "Active" /\ op = "end_tests" /\ w.err = "none"
                     THEN "Closed"
                ELSE phase
    /\ last' = [op |-> op, state |-> state, err |-> w.err, fired |-> w.fired,
                hook |-> w.hook, opened |-> w.opened, created |-> w.created]
    /\ log' = IF op \in {"STARTED", "ENDED"} /\ w.err = "none"
              THEN [log EXCEPT ![w.journal.file] = Append(@, <<state.tagged_name, op>>)]
              ELSE log
    /\ allok' = (allok /\ (op \in {"STARTED", "ENDED"} => w.err = "none"))
    /\ nops' = nops + 1
    /\ nfaults' = IF w.fired # "none" THEN nfaults + 1 ELSE nfaults
    /\ UNCHANGED clock

\* -------------------------------------------------------------- actions
Init ==
    /\ db = [d \in LogDirs |-> EmptyFile]
    /\ journal_initialized = FALSE
    /\ journal = Unset
    /\ journal_path = NoDir
    /\ txn = EmptyTxn
    /\ clock = 0
    /\ opens = 0
    /\ orphans = 0
    /\ phase = "Uninitialized"
    /\ last = NoCall
    /\ log = [d \in LogDirs |-> <<>>]
    /\ allok = TRUE
    /\ nops = 0
    /\ nfaults = 0

\* start_test and end_test with the state drawn from a given set
start_test_on(S) ==
    /\ nops < MaxOps
    /\ \E state \in S, fault \in ReachableFaults, finalize \in Finalizations :
       \E order \in OrdersFor(fault) :
          Return(Notify(SelfIn(finalize), state, "STARTED", fault, order),
                 "STARTED", state)

end_test_on(S) ==
    /\ nops < MaxOps
    /\ \E state \in S, fault \in ReachableFaults, finalize \in Finalizations :
       \E order \in OrdersFor(fault) :
          /\ state.status # Null
          /\ Return(Notify(SelfIn(finalize), state, "ENDED", fault, order),
                    "ENDED", state)

start_test == start_test_on(States)

end_test == end_test_on(States)

end_tests ==
    /\ nops < MaxOps
    /\ Return(_shutdown_journal(Self), "end_tests", NoState)

\* TestResultJournal.__init__ of a new recorder; the old one is abandoned
\* and its open transaction, if any, is lost with it
NewRecorder ==
    /\ nops < MaxOps
    /\ nops' = nops + 1
    /\ journal_initialized' = FALSE
    /\ journal' = Unset
    /\ journal_path' = NoDir
    /\ txn' = EmptyTxn
    /\ opens' = 0
    /\ orphans' = 0
    /\ phase' = "Uninitialized"
    /\ last' = NoCall
    /\ UNCHANGED <<db, clock, log, allok, nfaults>>

\* the wall clock advances
Tick ==
    /\ clock < MaxClock
    /\ clock' = clock + 1
    /\ UNCHANGED <<db, journal_initialized, journal, journal_path, txn, opens,
                   orphans, phase, last, log, allok, nops, nfaults>>

Next ==
    \/ start_test
    \/ end_test
    \/ end_tests
    \/ NewRecorder

Spec == Init /\ [][Next]_vars

\* the recorder of one job under a clock that advances between calls
ClockStates == {s \in States : s.job_logdir = "d1" /\ s.job_unique_id = "j1"}

start_test_clock == start_test_on(ClockStates)

end_test_clock == end_test_on(ClockStates)

NextClock ==
    \/ start_test_clock
    \/ end_test_clock
    \/ end_tests
    \/ NewRecorder
    \/ Tick

SpecClock == Init /\ [][NextClock]_vars

\* --------------------------------------------------------------- claims
\* a start_test / end_test step, an end_tests step
NotifyStep == nops' # nops /\ last'.op \in {"STARTED", "ENDED"}
CloseStep == nops' # nops /\ last'.op = "end_tests"

\* what a reader of a journal file sees of each row: the call that wrote it
Calls(rows) == [i \in 1..Len(rows) |-> <<rows[i].tag, rows[i].action>>]

RECURSIVE IsSubseq(_, _)
IsSubseq(s, t) ==
    IF s = <<>> THEN TRUE
    ELSE IF t = <<>> THEN FALSE
    ELSE IF Head(s) = Head(t) THEN IsSubseq(Tail(s), Tail(t))
    ELSE IsSubseq(s, Tail(t))

Journals == [d \in LogDirs |-> db[d].test_journal]

\* C1: end_tests on a recorder that never saw start_test or end_test raises
\* nothing and changes nothing.
C1_EndTestsBeforeAnyTestIsNoOp ==
    [][(CloseStep /\ journal_path = NoDir)
         => /\ last'.err = "none"
            /\ UNCHANGED <<db, journal_initialized, journal, journal_path, txn>>]_vars

\* C2: between any two recorder operations the connection holds no
\* uncommitted row, and every returned start_test/end_test call has its row
\* in the journal file.
C2_NoUncommittedRowBetweenCalls ==
    /\ txn = EmptyTxn
    /\ \A d \in LogDirs : IsSubseq(log[d], Calls(db[d].test_journal))

\* C3: while every start_test/end_test call has returned, the rows of each
\* journal file, in storage order, are exactly the calls that wrote to it,
\* in the order issued, each with its tagged_name and action.
C3_RowsAreTheCallsInOrder ==
    allok => \A d \in LogDirs : Calls(db[d].test_journal) = log[d]

C3_Witness ==
    /\ allok
    /\ \E d \in LogDirs :
          /\ Len(db[d].test_journal) = 3
          /\ \E i, j \in 1..3 :
                /\ i < j
                /\ db[d].test_journal[i].tag # db[d].test_journal[j].tag
                /\ db[d].test_journal[i].action = "STARTED"
                /\ db[d].test_journal[j].action = "ENDED"

\* C4: job_info never holds more than one row, and holds exactly one on
\* every file on which an initialization has succeeded, whichever recorders
\* and job ids wrote to the file.
C4_JobInfoAtMostOneRow ==
    /\ \A d \in LogDirs : Len(db[d].job_info) <= 1
    /\ journal_initialized => Len(db[journal.file].job_info) = 1
    /\ \A d \in LogDirs : log[d] # <<>> => Len(db[d].job_info) = 1

\* a recorder has just initialized itself on a file whose job_info row was
\* written by an earlier recorder under another job id
C4_Witness ==
    /\ last.opened
    /\ last.err = "none"
    /\ journal_initialized
    /\ last.created = {}
    /\ db[journal.file].job_info # <<last.state.job_unique_id>>
    /\ Len(db[journal.file].test_journal) >= 2

\* C5: every ENDED row has the non-null status of the state its end_test
\* call was passed; every STARTED row has a null status, whatever status
\* the state passed to start_test carries.
C5_StatusPlacement ==
    /\ \A d \in LogDirs : \A i \in 1..Len(db[d].test_journal) :
          LET r == db[d].test_journal[i]
          IN  /\ r.action = "ENDED" => r.status \in Statuses
              /\ r.action = "STARTED" => r.status = Null
    /\ (last.op \in {"STARTED", "ENDED"} /\ last.err = "none") =>
          LET rows == db[journal.file].test_journal
              r == rows[Len(rows)]
          IN  /\ rows # <<>>
              /\ r.action = last.op
              /\ r.status = (IF last.op = "ENDED" THEN last.state.status ELSE Null)

C5_Witness ==
    /\ last.op = "STARTED"
    /\ last.err = "none"
    /\ last.state.status = "PASS"
    /\ \E i \in 1..Len(db[journal.file].test_journal) :
          /\ db[journal.file].test_journal[i].action = "ENDED"
          /\ db[journal.file].test_journal[i].status = "FAIL"

\* C6: constructing a recorder opens and creates nothing; the first
\* notification that returns (start_test or end_test) leaves the recorder
\* Active with the file opened, the schema present and the job id recorded;
\* a notification on an Active recorder opens nothing, creates no table and
\* inserts no job_info row; while no call has failed a recorder has opened
\* storage at most once.
C6_LazyOpenOnce ==
    [][/\ (nops' # nops /\ last'.op = "new")
            => /\ journal'.st = "unset"
               /\ opens' = 0
               /\ phase' = "Uninitialized"
               /\ ~journal_initialized'
               /\ db' = db
       /\ (NotifyStep /\ ~journal_initialized /\ last'.err = "none")
            => /\ phase = "Uninitialized"
               /\ phase' = "Active"
               /\ journal_initialized'
               /\ journal' = [st |-> "open", file |-> last'.state.job_logdir]
               /\ opens' = opens + 1
               /\ db'[journal'.file].exists
               /\ db'[journal'.file].tables = SCHEMA
               /\ Len(db'[journal'.file].job_info) = 1
       /\ (NotifyStep /\ journal_initialized)
            => /\ journal_initialized'
               /\ opens' = opens
               /\ ~last'.opened
               /\ last'.created = {}
               /\ journal' = journal
               /\ \A d \in LogDirs :
                     /\ db'[d].exists = db[d].exists
                     /\ db'[d].tables = db[d].tables
                     /\ db'[d].job_info = db[d].job_info
       /\ allok' => opens' <= 1]_vars

\* the first notification was an end_test, and two more calls followed on
\* the one connection it opened
C6_Witness ==
    /\ journal_initialized
    /\ allok
    /\ opens = 1
    /\ Len(log[journal.file]) = 3
    /\ log[journal.file][1][2] = "ENDED"

IsPrefix(s, t) == Len(s) <= Len(t) /\ SubSeq(t, 1, Len(s)) = s

\* C7: once end_tests has closed an Active recorder, every start_test or
\* end_test on it raises, adds no row to any table, and does not reopen
\* storage.
C7_NoWriteAfterClose ==
    [][(NotifyStep /\ phase = "Closed")
         => /\ last'.err # "none"
            /\ phase' = "Closed"
            /\ db' = db
            /\ txn' = txn
            /\ journal' = journal
            /\ opens' = opens
            /\ ~last'.opened]_vars

C7_Witness ==
    /\ last.op \in {"STARTED", "ENDED"}
    /\ phase = "Closed"
    /\ journal.st = "closed"
    /\ last.err = "ProgrammingError"
    /\ Len(db[journal.file].test_journal) = 1

\* C8: a CREATE TABLE is executed only for a table the catalog query finds
\* absent; initializing a recorder on a file that holds both tables creates
\* no table, raises nothing unless a storage step fails, and leaves every
\* existing row of job_info and test_journal in place.
C8_SchemaIdempotent ==
    [][NotifyStep
         => /\ \A t \in last'.created : t \notin db[journal'.file].tables
            /\ (last'.opened /\ db[journal'.file].tables = SCHEMA)
                 => /\ last'.created = {}
                    /\ db'[journal'.file].tables = SCHEMA
                    /\ last'.fired = "none" => last'.err = "none"
            /\ \A d \in LogDirs :
                  /\ db[d].tables \subseteq db'[d].tables
                  /\ IsPrefix(db[d].job_info, db'[d].job_info)
                  /\ IsPrefix(db[d].test_journal, db'[d].test_journal)]_vars

\* a second recorder has opened a file that already held both tables and a
\* row of each, and has appended its own row
C8_Witness ==
    /\ last.opened
    /\ last.created = {}
    /\ last.err = "none"
    /\ db[journal.file].tables = SCHEMA
    /\ Len(db[journal.file].job_info) = 1
    /\ Len(db[journal.file].test_journal) = 2

\* C9: a start_test/end_test call that raises leaves test_journal as it
\* was, and a call that returns adds its own row and nothing else, so no
\* row of a failed call ever shows up.
C9_FailedWriteLeavesNoRow ==
    [][NotifyStep
         => IF last'.err = "none"
            THEN [d \in LogDirs |-> db'[d].test_journal]
                   = [Journals EXCEPT ![journal'.file] =
                         Append(@, Row(last'.state, last'.op))]
            ELSE [d \in LogDirs |-> db'[d].test_journal] = Journals]_vars

\* C10: when sqlite3.connect fails in start_test on an Uninitialized
\* recorder, the call raises, the base-class hook is not run, no row is
\* written, the recorder stays Uninitialized, and every notification on an
\* Uninitialized recorder attempts the open again.
C10_OpenFailureIsFatal ==
    [][/\ (NotifyStep /\ last'.op = "STARTED" /\ last'.fired = "open")
            => /\ ~journal_initialized
               /\ last'.err # "none"
               /\ ~last'.hook
               /\ db' = db
               /\ txn' = txn
               /\ ~journal_initialized'
       /\ (NotifyStep /\ ~journal_initialized)
            => (last'.opened \/ last'.fired = "open")]_vars

\* the open failed in one start_test and the next notification opened the
\* file
C10_Witness ==
    /\ nfaults = 1
    /\ opens = 1
    /\ journal_initialized
    /\ last.opened
    /\ last.err = "none"
    /\ Len(log[journal.file]) = 1
    /\ nops = 2

\* C11: from the notification that makes the recorder Active until
\* end_tests the storage handle is open; end_tests raises nothing, closes
\* that handle and changes no row; a closed handle stays closed and a
\* further end_tests releases nothing; in a run without a failed call the
\* recorder has opened one handle only, and after end_tests the file shows
\* the rows of the run's calls.
C11_OpenUntilEndTestsClosedOnce ==
    [][/\ phase' = "Active" => journal'.st = "open"
       /\ phase' = "Closed" => journal'.st = "closed"
       /\ (CloseStep /\ phase = "Active")
            => /\ last'.err = "none"
               /\ journal.st = "open"
               /\ journal' = [st |-> "closed", file |-> journal.file]
               /\ phase' = "Closed"
               /\ db' = db
       /\ (CloseStep /\ phase = "Closed")
            => (last'.err = "none" /\ journal' = journal /\ db' = db)
       /\ (allok' /\ phase' \in {"Active", "Closed"})
            => (opens' = 1 /\ orphans' = 0)
       /\ (allok' /\ phase' = "Closed")
            => Calls(db'[journal'.file].test_journal) = log'[journal'.file]]_vars

\* a start_test and an end_test, then end_tests
C11_Witness ==
    /\ phase = "Closed"
    /\ allok
    /\ last.op = "end_tests"
    /\ last.err = "none"
    /\ journal.st = "closed"
    /\ Calls(db[journal.file].test_journal) = <<<<"t1", "STARTED">>, <<"t1", "ENDED">>>>

\* order of isoformat strings as a reader compares them: character by
\* character, "." before the digits, a prefix before its extensions
CharRank(c) == IF c = "." THEN 0 ELSE CHOOSE i \in 1..10 : DigitChars[i] = c

RECURSIVE TextLeq(_, _)
TextLeq(a, b) ==
    IF a = <<>> THEN TRUE
    ELSE IF b = <<>> THEN FALSE
    ELSE IF Head(a) = Head(b) THEN TextLeq(Tail(a), Tail(b))
    ELSE CharRank(Head(a)) < CharRank(Head(b))

\* C12: the time of the row a returned call wrote is the clock's value at
\* the call, formatted, and the time values of each file's rows never
\* decrease in storage order as the clock advances.
C12_TimeIsTheClockAtTheCall ==
    [][/\ (NotifyStep /\ last'.err = "none")
            => LET rows == db'[journal'.file].test_journal
               IN  rows[Len(rows)].time = isoformat(DateTime(clock))
       /\ \A d \in LogDirs : \A i, j \in 1..Len(db'[d].test_journal) :
             i < j => TextLeq(db'[d].test_journal[i].time, db'[d].test_journal[j].time)]_vars

\* two rows of one file written at different instants
C12_Witness ==
    \E d \in LogDirs :
       /\ Len(db[d].test_journal) >= 2
       /\ db[d].test_journal[1].time = isoformat(DateTime(0))
       /\ db[d].test_journal[2].time = isoformat(DateTime(MaxClock))

\* C13: every row of test_journal, committed or still in the connection's
\* transaction, has flushed = false, and no operation changes the flushed
\* field of a row that is already in a file.
C13_FlushedNeverSet ==
    [][/\ \A d \in LogDirs : \A i \in 1..Len(db'[d].test_journal) :
             ~db'[d].test_journal[i].flushed
       /\ \A i \in 1..Len(txn'.test_journal) : ~txn'.test_journal[i].flushed
       /\ \A d \in LogDirs : \A i \in 1..Len(db[d].test_journal) :
             /\ i <= Len(db'[d].test_journal)
             /\ db'[d].test_journal[i].flushed = db[d].test_journal[i].flushed]_vars

\* a file holds rows of a start_test and of an end_test, and end_tests has
\* run since
C13_Witness ==
    /\ last.op = "end_tests"
    /\ \E d \in LogDirs :
          /\ Len(db[d].test_journal) = 2
          /\ db[d].test_journal[1].action = "STARTED"
          /\ db[d].test_journal[2].action = "ENDED"
          /\ ~db[d].test_journal[1].flushed
          /\ ~db[d].test_journal[2].flushed

\* connections the live recorder has opened and that are not closed
OpenConnections == (IF journal.st = "open" THEN 1 ELSE 0) + orphans

\* C14: at every state a recorder has at most one connection that was
\* opened and not closed, also after an initialization that failed once the
\* connection was open and was tried again by the next notification.
C14_AtMostOneOpenConnection == OpenConnections <= 1

\* C15 as stated: once a recorder has had its first notification, the
\* journal path that notification set never changes, no journal file in
\* another directory is created or written, and every returned call writes
\* to the file of that path.
C15_FileFixedByFirstNotification ==
    [][(NotifyStep /\ journal_path # NoDir)
         => /\ journal_path' = journal_path
            /\ \A d \in LogDirs \ {journal_path} : db'[d] = db[d]
            /\ last'.err = "none" => journal'.file = journal_path]_vars

\* C15, amended: the notification whose initialization succeeds fixes the
\* journal file by its job_logdir; once Active, every start_test/end_test
\* keeps the path and the connection, touches no other file, creates none,
\* and when it returns has appended its row to that file, whatever
\* job_logdir and job_unique_id its state carries.
C15_FileFixedOnceActive ==
    [][/\ (NotifyStep /\ ~journal_initialized /\ last'.err = "none")
            => /\ journal_path' = last'.state.job_logdir
               /\ journal'.file = last'.state.job_logdir
       /\ (NotifyStep /\ journal_initialized)
            => /\ journal.file = journal_path
               /\ journal_path' = journal_path
               /\ journal'.file = journal.file
               /\ \A d \in LogDirs : db'[d].exists = db[d].exists
               /\ \A d \in LogDirs \ {journal.file} : db'[d] = db[d]
               /\ last'.err = "none"
                    => /\ Len(db'[journal.file].test_journal)
                            > Len(db[journal.file].test_journal)
                       /\ db'[journal.file].test_journal[Len(db'[journal.file].test_journal)]
                            = Row(last'.state, last'.op)]_vars

\* an Active recorder has returned from a call whose state named another
\* job_logdir and another job_unique_id; the other directory has no journal
C15_Witness ==
    /\ journal_initialized
    /\ ~last.opened
    /\ last.op \in {"STARTED", "ENDED"}
    /\ last.err = "none"
    /\ last.state.job_logdir # journal.file
    /\ db[journal.file].job_info # <<last.state.job_unique_id>>
    /\ ~db[last.state.job_logdir].exists
    /\ Len(db[journal.file].test_journal) = 2

\* C16: in every state, a file whose test_journal holds a row holds exactly
\* one job_info row, also after initializations or writes that failed
\* part-way.
C16_JobInfoBeforeRows ==
    \A d \in LogDirs :
       /\ db[d].test_journal # <<>> => Len(db[d].job_info) = 1
       /\ (journal.file = d /\ txn.test_journal # <<>>) => Len(db[d].job_info) = 1

\* the first initialization broke off after the connection was open, the
\* second one completed and its call wrote the file's first row
C16_Witness ==
    /\ ~allok
    /\ opens = 2
    /\ last.opened
    /\ last.err = "none"
    /\ Len(db[journal.file].test_journal) = 1
    /\ db[journal.file].job_info = <<last.state.job_unique_id>>

\* C17: a job_info row, once in a file, is never changed or removed; a
\* recorder that initializes on a file whose job_info row carries another
\* job id raises nothing unless a storage step fails, leaves that row, and
\* its call appends its test_journal row to the file.
C17_StoredJobIdNeverChanges ==
    [][/\ \A d \in LogDirs :
             db[d].job_info # <<>> => db'[d].job_info = db[d].job_info
       /\ (NotifyStep /\ last'.opened /\ last'.fired = "none"
             /\ db[journal'.file].tables = SCHEMA
             /\ db[journal'.file].job_info # <<>>
             /\ db[journal'.file].job_info # <<last'.state.job_unique_id>>)
            => /\ last'.err = "none"
               /\ journal_initialized'
               /\ db'[journal'.file].test_journal
                    = Append(db[journal'.file].test_journal, Row(last'.state, last'.op))]_vars

\* a file whose job_info row names one job and whose last test_journal row
\* was written by a recorder initialized for another job
C17_Witness ==
    /\ last.opened
    /\ last.err = "none"
    /\ last.op = "ENDED"
    /\ last.state.job_unique_id = "j2"
    /\ db[journal.file].job_info = <<"j1">>
    /\ Len(db[journal.file].test_journal) = 2
    /\ db[journal.file].test_journal[2].action = "ENDED"

====
